---- MODULE Spec2Model ----
(***************************************************************************)
(* A model of the authenticator companion app (src/src/App.tsx and         *)
(* src/src/utils/totp.ts): the pairing record in localStorage, the setup   *)
(* form, and the OTP screen effect with its 1 Hz interval, its asynchronous*)
(* OTP computations and its isCancelled flag.                              *)
(*                                                                         *)
(* Strings that the code inspects character by character (the key, the raw *)
(* input) are sequences of one-character strings.  Handlers are operators  *)
(* from a record of the component's state to the record after the handler; *)
(* an action applies a handler and then the OTP effect that React re-runs  *)
(* when its dependencies [screen, config?.readableKey] changed.  A state   *)
(* update and the effect cleanup/re-run it causes are one step: React      *)
(* flushes the passive effects of a discrete event (a click) synchronously *)
(* with the commit, before any promise continuation or timer can run.      *)
(*                                                                         *)
(* Time is counted in units of 1/Sub second; a timer callback fires at its *)
(* due time or up to MaxDelay units later.                                 *)
(***************************************************************************)
EXTENDS Integers, Sequences, FiniteSets, Bags, TLC

\* ------------------------------------------------------------------ bounds
Sub == 2            \* clock units per second
StartSec == 29      \* wall-clock second at which the page is first opened
EndSec == 31        \* wall-clock second after which the model stops the clock
MaxDelay == 1       \* how many units late a timer callback may fire
MaxPending == 2     \* computations in flight beyond which no new pairing is made

\* ------------------------------------------------------- program constants
KeyLen == 16
Period == 30
IntervalMs == 1000
HighlightMs == 250
DigestLen == 20         \* bytes of an HMAC-SHA1 signature
OtpDigits == 6
OtpModulus == 1000000
HashBase == 31

IntervalUnits == (IntervalMs * Sub) \div 1000
HighlightUnits == (HighlightMs * Sub + 999) \div 1000
MaxNow == EndSec * Sub

LengthMsg == "Key must be exactly 16 characters."
CharsetMsg == "Key must contain only A-Z and 0-9."
InvalidMsg == "Invalid key."
PairedMsg == "Device paired successfully. Generating OTPs..."
SaveFailedMsg == "Failed to save device. Please try again."

\* ------------------------------------------------------------- characters
UpperLetters == <<"A", "B", "C", "D", "E", "F", "G", "H", "Z">>
LowerLetters == <<"a", "b", "c", "d", "e", "f", "g", "h", "z">>
Digits == {"0", "1", "2", "3", "4", "5", "6", "7", "8", "9"}
Symbols == {"-", " ", "!"}

Range(f) == {f[i] : i \in DOMAIN f}

\* String.prototype.toUpperCase, one character at a time
UpperOf ==
  [c \in Range(UpperLetters) \cup Range(LowerLetters) \cup Digits \cup Symbols |->
     IF \E j \in 1..Len(LowerLetters) : LowerLetters[j] = c
       THEN UpperLetters[CHOOSE j \in 1..Len(LowerLetters) : LowerLetters[j] = c]
       ELSE c]

toUpperCase(str) == [i \in 1..Len(str) |-> UpperOf[str[i]]]

\* the character class [A-Z0-9]
ClassChars == Range(UpperLetters) \cup Digits

InClass(c) == c \in ClassChars

\* val.toUpperCase().replace(/[^A-Z0-9]/g, "")
Cleaned(val) == SelectSeq(toUpperCase(val), InClass)

\* /^[A-Z0-9]+$/.test(str)
RegexTest(str) == Len(str) >= 1 /\ \A i \in 1..Len(str) : InClass(str[i])

\* a variant of keySchemaIssues whose minimum length is off by one
keySchemaIssuesMin15(str) ==
  (IF Len(str) < KeyLen - 1 THEN <<LengthMsg>> ELSE <<>>)
    \o (IF Len(str) > KeyLen THEN <<LengthMsg>> ELSE <<>>)
    \o (IF RegexTest(str) THEN <<>> ELSE <<CharsetMsg>>)

\* keySchema.safeParse(str): the list of issue messages, in check order
keySchemaIssues(str) ==
  (IF Len(str) < KeyLen THEN <<LengthMsg>> ELSE <<>>)
    \o (IF Len(str) > KeyLen THEN <<LengthMsg>> ELSE <<>>)
    \o (IF RegexTest(str) THEN <<>> ELSE <<CharsetMsg>>)

\* ---------------------------------------------------------------- samples
Rep(c, n) == [i \in 1..n |-> c]
Key1 == <<"A", "B", "1", "2", "C", "D", "3", "4", "E", "F", "5", "6", "G", "H", "7", "8">>
Key2 == Rep("A", KeyLen)
Key1Lower == <<"a", "b", "1", "2", "c", "d", "3", "4", "e", "f", "5", "6", "g", "h", "7", "8">>
Key1Dashed == SubSeq(Key1, 1, 4) \o <<"-">> \o SubSeq(Key1, 5, 8) \o <<"-">>
                \o SubSeq(Key1, 9, 12) \o <<"-">> \o SubSeq(Key1, 13, 16)

\* what the user may type or paste into the key field
RawInputs ==
  { <<>>, Key1Lower, Key1Dashed,
    SubSeq(Key1, 1, KeyLen - 1),
    Key1 \o <<"9">>,
    Key1Lower \o <<"z", "!">>,
    Rep("-", KeyLen + 2) }

\* -------------------------------------------------------------- structures
Null == <<>>
Some(x) == <<x>>

\* a localStorage value: the text of a JSON document, by what JSON.parse makes
\* of it ("garbage" does not parse, "null" parses to null, "object" parses
\* to an object with the given fields, "empty" is the empty string)
JsonObject(fields) == [json |-> "object", fields |-> fields]
JsonStringify(cfg) == JsonObject(cfg)

InitialBlobs ==
  { Null,
    Some([json |-> "empty"]),
    Some([json |-> "garbage"]),
    Some([json |-> "null"]),
    Some(JsonObject([createdAt |-> 0])),
    Some(JsonObject([readableKey |-> <<>>, createdAt |-> 0])),
    Some(JsonObject([readableKey |-> <<"a", "b", "!">>, createdAt |-> 0])),
    Some(JsonObject([readableKey |-> Key2, createdAt |-> 0])) }

OtpEmpty == [kind |-> "empty"]
OtpPlaceholder == [kind |-> "------"]

\* generateTotpForStep(secret, timeStep): the code is kept as the pair it is
\* a function of
generateTotpForStep(secret, timeStep) ==
  [kind |-> "code", secret |-> secret, timeStep |-> timeStep]

\* ------------------------------------------------------------ TOTP engine
\* The numbers of utils/totp.ts.  TLC's integers are 32-bit signed, so the
\* unsigned 32-bit hash of the fallback is kept as two 16-bit halves.
Half == 65536

\* x & m for a mask m = 2^k - 1 and x >= 0
AndMask(x, m) == x % (m + 1)

\* JavaScript's %, which takes the sign of the dividend
JsRem(a, m) == IF a >= 0 THEN a % m ELSE -((-a) % m)

\* Number.prototype.toString for an integer, as a sequence of characters
DigitChar(d) == <<"0", "1", "2", "3", "4", "5", "6", "7", "8", "9">>[d + 1]

RECURSIVE NatToString(_)
NatToString(n) ==
  IF n < 10 THEN <<DigitChar(n)>> ELSE Append(NatToString(n \div 10), DigitChar(n % 10))

IntToString(n) == IF n < 0 THEN <<"-">> \o NatToString(-n) ELSE NatToString(n)

\* String.prototype.padStart(len, "0")
padStart(str, len) == IF Len(str) >= len THEN str ELSE Rep("0", len - Len(str)) \o str

\* String.prototype.charCodeAt for the characters of the model
CharCodes ==
  [c \in Range(UpperLetters) \cup Range(LowerLetters) \cup Digits \cup Symbols \cup {":"} |->
     CASE c = "A" -> 65 [] c = "B" -> 66 [] c = "C" -> 67 [] c = "D" -> 68
       [] c = "E" -> 69 [] c = "F" -> 70 [] c = "G" -> 71 [] c = "H" -> 72
       [] c = "Z" -> 90
       [] c = "a" -> 97 [] c = "b" -> 98 [] c = "c" -> 99 [] c = "d" -> 100
       [] c = "e" -> 101 [] c = "f" -> 102 [] c = "g" -> 103 [] c = "h" -> 104
       [] c = "z" -> 122
       [] c = "0" -> 48 [] c = "1" -> 49 [] c = "2" -> 50 [] c = "3" -> 51
       [] c = "4" -> 52 [] c = "5" -> 53 [] c = "6" -> 54 [] c = "7" -> 55
       [] c = "8" -> 56 [] c = "9" -> 57
       [] c = "-" -> 45 [] c = " " -> 32 [] c = "!" -> 33 [] c = ":" -> 58]

\* hash = (hash * 31 + combined.charCodeAt(i)) >>> 0, on the halves <<hi, lo>>
HashStep(hash, code) ==
  LET lo == hash[2] * HashBase + code
      hi == hash[1] * HashBase + lo \div Half
  IN <<hi % Half, lo % Half>>

RECURSIVE HashFrom(_, _, _)
HashFrom(hash, combined, i) ==
  IF i > Len(combined) THEN hash
  ELSE HashFrom(HashStep(hash, CharCodes[combined[i]]), combined, i + 1)

\* hash % 1_000_000 of the hash <<hi, lo>> = hi * 65536 + lo
HashMod(hash) ==
  (((((hash[1] * 256) % OtpModulus) * 256) % OtpModulus) + hash[2]) % OtpModulus

\* the branch of generateTotpForStep taken without crypto.subtle
FallbackTotp(secret, timeStep) ==
  LET combined == secret \o <<":">> \o IntToString(timeStep)
      otpFallback == HashMod(HashFrom(<<0, 0>>, combined, 1))
  IN padStart(IntToString(otpFallback), OtpDigits)

\* intToBuffer(num): the 8 bytes, big-endian, of a number below 2^31
intToBuffer(num) ==
  <<0, 0, 0, 0, (num \div 16777216) % 256, (num \div 65536) % 256,
    (num \div 256) % 256, num % 256>>

\* hmac[i] inside a bitwise expression: an index outside the array reads
\* undefined, which the operators take as 0
ByteAt(hmac, i) == IF i \in 0..(Len(hmac) - 1) THEN hmac[i + 1] ELSE 0

\* a variant of TruncationOffset that masks five bits
TruncationOffsetWide(hmac) == AndMask(ByteAt(hmac, Len(hmac) - 1), 31)

\* offset = hmac[hmac.length - 1] & 0x0f
TruncationOffset(hmac) == AndMask(ByteAt(hmac, Len(hmac) - 1), 15)

\* the four masked bytes joined with << and |, a 32-bit signed integer
TruncationBinary(hmac, offset) ==
  LET b0 == AndMask(ByteAt(hmac, offset), 127)
      b1 == AndMask(ByteAt(hmac, offset + 1), 255)
      b2 == AndMask(ByteAt(hmac, offset + 2), 255)
      b3 == AndMask(ByteAt(hmac, offset + 3), 255)
  IN (IF b0 >= 128 THEN b0 - 256 ELSE b0) * 16777216 + b1 * 65536 + b2 * 256 + b3

\* the branch of generateTotpForStep taken with crypto.subtle, from the
\* signature on
PrimaryTotp(hmac) ==
  LET binary == TruncationBinary(hmac, TruncationOffset(hmac))
      otp == JsRem(binary, OtpModulus)
  IN padStart(IntToString(otp), OtpDigits)

\* inputs of the engine: secrets, time steps, and signatures by their filling
\* of bytes 0..18 and their last byte
TotpSecrets == {Key1, Key2, <<"a", "b", "!">>}
TotpTimeSteps == {0, 1, 9, 10, 1000, 58799999}

MkDigest(fill, last) ==
  [i \in 1..DigestLen |->
     IF i = DigestLen THEN last
     ELSE CASE fill = "zeros" -> 0
            [] fill = "ones" -> 255
            [] fill = "high" -> 128
            [] fill = "ramp" -> (i * 37) % 256]

TotpDigests ==
  {MkDigest(fill, nibble + 16 * high) :
     fill \in {"zeros", "ones", "high", "ramp"}, nibble \in 0..15, high \in {0, 15}}

EngineIdle == [pc |-> "idle"]

\* the input of a step that takes none
NoInput == [none |-> TRUE]

VARIABLES screen, config, keyInput, status, loading, currentOtp, secondsLeft,
          otpHighlight, storage, now, run, pending, timers, hlTimeouts,
          lastOp, lastInput, paired, startedSteps, engine

vars == <<screen, config, keyInput, status, loading, currentOtp, secondsLeft,
          otpHighlight, storage, now, run, pending, timers, hlTimeouts,
          lastOp, lastInput, paired, startedSteps, engine>>

\* History variables, which no handler reads: lastOp and lastInput name the
\* last step and its input, paired is the config of the last successful
\* pairing since the last reset, startedSteps the time steps for which the
\* live run has started a computation.  engine is a call of
\* generateTotpForStep followed on its own (TotpSpec); it is idle in Spec.
\*
\* The component's state, the storage and what the effect's closures hold, as
\* one record.  run is the secret captured by the effect run whose cleanup is
\* registered (Null when there is none); pending holds the computations in
\* flight, each with the value of the isCancelled flag of the run that
\* started it; timers holds the active intervals, hlTimeouts the due times of
\* the scheduled highlight timeouts.
St ==
  [screen |-> screen, config |-> config, keyInput |-> keyInput, status |-> status,
   loading |-> loading, currentOtp |-> currentOtp, secondsLeft |-> secondsLeft,
   otpHighlight |-> otpHighlight, storage |-> storage, run |-> run,
   pending |-> pending, timers |-> timers, hlTimeouts |-> hlTimeouts]

Apply(s) ==
  /\ screen' = s.screen
  /\ config' = s.config
  /\ keyInput' = s.keyInput
  /\ status' = s.status
  /\ loading' = s.loading
  /\ currentOtp' = s.currentOtp
  /\ secondsLeft' = s.secondsLeft
  /\ otpHighlight' = s.otpHighlight
  /\ storage' = s.storage
  /\ run' = s.run
  /\ pending' = s.pending
  /\ timers' = s.timers
  /\ hlTimeouts' = s.hlTimeouts

Holds(s) ==
  /\ screen = s.screen
  /\ config = s.config
  /\ keyInput = s.keyInput
  /\ status = s.status
  /\ loading = s.loading
  /\ currentOtp = s.currentOtp
  /\ secondsLeft = s.secondsLeft
  /\ otpHighlight = s.otpHighlight
  /\ storage = s.storage
  /\ run = s.run
  /\ pending = s.pending
  /\ timers = s.timers
  /\ hlTimeouts = s.hlTimeouts

\* the state of a freshly mounted component over a given storage
Mounted(blob) ==
  [screen |-> "loading", config |-> Null, keyInput |-> <<>>, status |-> "",
   loading |-> FALSE, currentOtp |-> OtpEmpty, secondsLeft |-> Period,
   otpHighlight |-> FALSE, storage |-> blob, run |-> Null,
   pending |-> EmptyBag, timers |-> {}, hlTimeouts |-> {}]

\* Math.floor(Date.now() / 1000) and Math.floor(Date.now() / 1000 / 30)
NowSec(t) == t \div Sub
TimeStep(t) == (t \div Sub) \div Period

\* ------------------------------------------------------------- OTP effect
\* config?.readableKey
ReadableKey(s) ==
  IF s.config # Null /\ "readableKey" \in DOMAIN s.config[1]
    THEN Some(s.config[1].readableKey) ELSE Null

Truthy(opt) == opt # Null /\ opt[1] # <<>>

\* the effect's dependency list
Deps(s) == <<s.screen, ReadableKey(s)>>

\* updateOtp(), up to the await: generateCurrentTotp reads the clock and the
\* computation for that time step is in flight
updateOtp(s, secret, t) ==
  [s EXCEPT !.pending =
     @ (+) SetToBag({[secret |-> secret, timeStep |-> TimeStep(t),
                      isCancelled |-> FALSE]})]

\* a variant of TickRemaining that takes the second within the minute
TickRemainingOfMinute(t) == Period - (NowSec(t) % (2 * Period))

TickRemaining(t) == Period - (NowSec(t) % Period)

\* a variant of tick that recomputes one second after the window began
tickLate(s, secret, t) ==
  LET remaining == TickRemaining(t)
      s1 == [s EXCEPT !.secondsLeft = remaining]
  IN IF remaining = Period - 1 THEN updateOtp(s1, secret, t) ELSE s1

tick(s, secret, t) ==
  LET remaining == TickRemaining(t)
      s1 == [s EXCEPT !.secondsLeft = remaining]
  IN IF remaining = Period THEN updateOtp(s1, secret, t) ELSE s1

\* the pending computations once the run that is live has set isCancelled
Cancel(bag) ==
  LET cancelled(c) == [c EXCEPT !.isCancelled = TRUE]
      olds == BagToSet(bag)
      news == {cancelled(c) : c \in olds}
  IN [c \in news |->
        (IF c \in olds THEN bag[c] ELSE 0)
        + (IF [c EXCEPT !.isCancelled = FALSE] \in olds
             THEN bag[[c EXCEPT !.isCancelled = FALSE]] ELSE 0)]

\* a variant of EffectCleanup that does not set isCancelled
EffectCleanupKeepsFlag(s) ==
  IF s.run = Null THEN s
  ELSE [s EXCEPT !.timers = {x \in @ : x.secret # s.run[1]},
                 !.run = Null]

\* a variant of EffectCleanup that does not clear the interval
EffectCleanupKeepsInterval(s) ==
  IF s.run = Null THEN s
  ELSE [s EXCEPT !.pending = Cancel(@),
                 !.run = Null]

\* the cleanup returned by the effect: isCancelled = true; clearInterval
EffectCleanup(s) ==
  IF s.run = Null THEN s
  ELSE [s EXCEPT !.pending = Cancel(@),
                 !.timers = {x \in @ : x.secret # s.run[1]},
                 !.run = Null]

\* a variant of EffectBody without the initial updateOtp()
EffectBodyNoInitialCall(s, t) ==
  IF s.screen # "otp" \/ ~Truthy(ReadableKey(s)) THEN s
  ELSE LET secret == ReadableKey(s)[1]
           s1 == [s EXCEPT !.run = Some(secret)]
           s3 == tick(s1, secret, t)
       IN [s3 EXCEPT !.timers =
             @ \cup {[secret |-> secret, due |-> t + IntervalUnits]}]

EffectBody(s, t) ==
  IF s.screen # "otp" \/ ~Truthy(ReadableKey(s)) THEN s
  ELSE LET secret == ReadableKey(s)[1]
           s1 == [s EXCEPT !.run = Some(secret)]
           s2 == updateOtp(s1, secret, t)
           s3 == tick(s2, secret, t)
       IN [s3 EXCEPT !.timers =
             @ \cup {[secret |-> secret, due |-> t + IntervalUnits]}]

\* React after a render: when a dependency changed, clean the previous run up
\* and run the effect again
OtpEffect(prev, s, t) ==
  IF Deps(prev) = Deps(s) THEN s ELSE EffectBody(EffectCleanup(s), t)

\* ---------------------------------------------------------------- handlers
\* a variant of LoadEffect that accepts every stored object
LoadEffectNoKeyCheck(s) ==
  IF s.storage = Null \/ s.storage[1].json = "empty" THEN [s EXCEPT !.screen = "setup"]
  ELSE IF s.storage[1].json \in {"garbage", "null"} THEN [s EXCEPT !.screen = "setup"]
  ELSE [s EXCEPT !.config = Some(s.storage[1].fields), !.screen = "otp"]

\* the load effect
LoadEffect(s) ==
  IF s.storage = Null \/ s.storage[1].json = "empty" THEN [s EXCEPT !.screen = "setup"]
  ELSE IF s.storage[1].json \in {"garbage", "null"} THEN [s EXCEPT !.screen = "setup"]
  ELSE LET parsed == s.storage[1].fields
       IN IF "readableKey" \in DOMAIN parsed /\ parsed.readableKey # <<>>
            THEN [s EXCEPT !.config = Some(parsed), !.screen = "otp"]
            ELSE [s EXCEPT !.screen = "setup"]

\* a variant of handleKeyInputChange that blocks from 16 characters on
handleKeyInputChangeStrict(s, val) ==
  LET cleaned == Cleaned(val)
  IN IF Len(cleaned) < KeyLen
       THEN [s EXCEPT !.keyInput = cleaned, !.status = ""]
       ELSE s

handleKeyInputChange(s, val) ==
  LET cleaned == Cleaned(val)
  IN IF Len(cleaned) <= KeyLen
       THEN [s EXCEPT !.keyInput = cleaned, !.status = ""]
       ELSE s

\* a variant of handleSaveDevice whose saveConfig does not write the storage
handleSaveDeviceNoWrite(s, t, setItemThrows) ==
  LET issues == keySchemaIssues(s.keyInput)
  IN IF issues # <<>> THEN [s EXCEPT !.status = issues[1]]
     ELSE LET cfg == [readableKey |-> s.keyInput, createdAt |-> t]
              s1 == [s EXCEPT !.status = "", !.config = Some(cfg)]
          IN IF setItemThrows
               THEN [s1 EXCEPT !.status = SaveFailedMsg, !.loading = FALSE]
               ELSE [s1 EXCEPT !.keyInput = <<>>,
                               !.status = PairedMsg,
                               !.screen = "otp",
                               !.loading = FALSE]

\* saveConfig(cfg) inside the try block of handleSaveDevice; setItem may throw
handleSaveDevice(s, t, setItemThrows) ==
  LET issues == keySchemaIssues(s.keyInput)
  IN IF issues # <<>> THEN [s EXCEPT !.status = issues[1]]
     ELSE LET cfg == [readableKey |-> s.keyInput, createdAt |-> t]
              s1 == [s EXCEPT !.status = "", !.config = Some(cfg)]
          IN IF setItemThrows
               THEN [s1 EXCEPT !.status = SaveFailedMsg, !.loading = FALSE]
               ELSE [s1 EXCEPT !.storage = Some(JsonStringify(cfg)),
                               !.keyInput = <<>>,
                               !.status = PairedMsg,
                               !.screen = "otp",
                               !.loading = FALSE]

\* a variant of handleResetDevice that leaves the stored blob
handleResetDeviceKeepsBlob(s) ==
  [s EXCEPT !.config = Null, !.currentOtp = OtpEmpty,
            !.secondsLeft = Period, !.status = "", !.keyInput = <<>>,
            !.screen = "setup"]

handleResetDevice(s) ==
  [s EXCEPT !.storage = Null, !.config = Null, !.currentOtp = OtpEmpty,
            !.secondsLeft = Period, !.status = "", !.keyInput = <<>>,
            !.screen = "setup"]

\* updateOtp() after the await resolved
OtpResolved(s, c, t) ==
  LET s1 == [s EXCEPT !.pending = @ (-) SetToBag({c})]
  IN IF ~c.isCancelled
       THEN [s1 EXCEPT !.otpHighlight = TRUE,
                       !.currentOtp = generateTotpForStep(c.secret, c.timeStep),
                       !.hlTimeouts = @ \cup {t + HighlightUnits}]
       ELSE s1

\* a variant of OtpRejected that unpairs the device on a failure
OtpRejectedUnpairs(s, c) ==
  LET s1 == [s EXCEPT !.pending = @ (-) SetToBag({c})]
  IN IF ~c.isCancelled
       THEN [s1 EXCEPT !.currentOtp = OtpPlaceholder, !.config = Null,
                       !.storage = Null]
       ELSE s1

\* updateOtp() after the await rejected
OtpRejected(s, c) ==
  LET s1 == [s EXCEPT !.pending = @ (-) SetToBag({c})]
  IN IF ~c.isCancelled
       THEN [s1 EXCEPT !.currentOtp = OtpPlaceholder]
       ELSE s1

\* ----------------------------------------------------------------- actions
\* the computations that are in flight in s and not cancelled
Live(s) == {c \in BagToSet(s.pending) : ~c.isCancelled}

\* the time steps of the live computations that s has more of than prev
NewlyStarted(prev, s) ==
  {c.timeStep : c \in {d \in Live(s) : CopiesIn(d, s.pending) > CopiesIn(d, prev.pending)}}

\* a step of the component to state s, with the history it leaves
Step(op, input, s) ==
  \E r \in {s} :
    /\ Apply(r)
    /\ lastOp' = op
    /\ lastInput' = input
    /\ engine' = engine
    /\ startedSteps' = IF r.run = Null THEN {}
                       ELSE (IF run = Null THEN {} ELSE startedSteps) \cup NewlyStarted(St, r)

Init ==
  /\ \E blob \in InitialBlobs : Holds(Mounted(blob))
  /\ now = StartSec * Sub
  /\ lastOp = "init"
  /\ lastInput = NoInput
  /\ paired = Null
  /\ startedSteps = {}
  /\ engine = EngineIdle

Load ==
  /\ screen = "loading"
  /\ Step("load", NoInput, OtpEffect(St, LoadEffect(St), now))
  /\ UNCHANGED <<now, paired>>

KeyInputChange ==
  /\ screen = "setup"
  /\ \E val \in RawInputs :
       Step("input", [val |-> val], OtpEffect(St, handleKeyInputChange(St, val), now))
  /\ UNCHANGED <<now, paired>>

SaveDevice ==
  /\ screen = "setup"
  /\ ~loading
  /\ BagCardinality(pending) < MaxPending
  /\ \E setItemThrows \in BOOLEAN :
       LET s == OtpEffect(St, handleSaveDevice(St, now, setItemThrows), now)
       IN /\ Step("save", [setItemThrows |-> setItemThrows], s)
          /\ paired' = IF s.screen = "otp" THEN s.config ELSE paired
  /\ UNCHANGED now

ResetDevice ==
  /\ screen = "otp"
  /\ config # Null
  /\ Step("reset", NoInput, OtpEffect(St, handleResetDevice(St), now))
  /\ paired' = Null
  /\ UNCHANGED now

\* an interval callback; the next one is due an interval after this one was
\* due or after it ran
Tick ==
  /\ \E x \in timers :
       /\ now >= x.due
       /\ \E next \in {x.due + IntervalUnits, now + IntervalUnits} :
            Step("tick", x,
                 [tick(St, x.secret, now) EXCEPT
                    !.timers = (@ \ {x}) \cup {[x EXCEPT !.due = next]}])
  /\ UNCHANGED <<now, paired>>

Resolve ==
  /\ \E c \in BagToSet(pending) : Step("resolve", c, OtpResolved(St, c, now))
  /\ UNCHANGED <<now, paired>>

Reject ==
  /\ \E c \in BagToSet(pending) : Step("reject", c, OtpRejected(St, c))
  /\ UNCHANGED <<now, paired>>

HighlightTimeout ==
  /\ \E d \in hlTimeouts :
       /\ now >= d
       /\ Step("highlight-off", [due |-> d],
               [St EXCEPT !.otpHighlight = FALSE, !.hlTimeouts = @ \ {d}])
  /\ UNCHANGED <<now, paired>>

\* the wall clock advances; a due timer callback is at most MaxDelay late
Advance ==
  /\ now < MaxNow
  /\ \A x \in timers : now < x.due + MaxDelay
  /\ \A d \in hlTimeouts : now < d + MaxDelay
  /\ now' = now + 1
  /\ lastOp' = "advance"
  /\ lastInput' = NoInput
  /\ UNCHANGED <<screen, config, keyInput, status, loading, currentOtp, secondsLeft,
                 otpHighlight, storage, run, pending, timers, hlTimeouts, paired,
                 startedSteps, engine>>

\* the page is reloaded: every closure, timer and promise of the old page is
\* gone, localStorage stays
Restart ==
  /\ screen # "loading"
  /\ Step("restart", NoInput, Mounted(storage))
  /\ UNCHANGED <<now, paired>>

Next ==
  \/ Load
  \/ KeyInputChange
  \/ SaveDevice
  \/ ResetDevice
  \/ Tick
  \/ Resolve
  \/ Reject
  \/ HighlightTimeout
  \/ Advance
  \/ Restart

Spec == Init /\ [][Next]_vars

\* A run that is left alone: no reset, no restart, and every computation
\* resolves.  A settled promise's continuation is run by the event loop, so
\* Resolve is taken when it stays enabled (every Resolve step changes pending).
RunNext ==
  \/ Load
  \/ KeyInputChange
  \/ SaveDevice
  \/ Tick
  \/ Resolve
  \/ HighlightTimeout
  \/ Advance

RunSpec == Init /\ [][RunNext]_vars /\ WF_pending(Resolve)

\* ------------------------------------------------ the engine, on its own
appVars == <<screen, config, keyInput, status, loading, currentOtp, secondsLeft,
             otpHighlight, storage, now, run, pending, timers, hlTimeouts,
             lastOp, lastInput, paired, startedSteps>>

TotpInit ==
  /\ Holds(Mounted(Null))
  /\ now = StartSec * Sub
  /\ lastOp = "init"
  /\ lastInput = NoInput
  /\ paired = Null
  /\ startedSteps = {}
  /\ engine = EngineIdle

\* generateTotpForStep(secret, timeStep) is called, with or without
\* window.crypto.subtle
TotpCall ==
  /\ engine.pc \in {"idle", "done"}
  /\ \E secret \in TotpSecrets, timeStep \in TotpTimeSteps, subtle \in BOOLEAN :
       engine' = [pc |-> "called", secret |-> secret, timeStep |-> timeStep,
                  subtle |-> subtle]
  /\ UNCHANGED appVars

TotpFallback ==
  /\ engine.pc = "called"
  /\ ~engine.subtle
  /\ engine' = [pc |-> "done", path |-> "fallback", secret |-> engine.secret,
                timeStep |-> engine.timeStep,
                out |-> FallbackTotp(engine.secret, engine.timeStep)]
  /\ UNCHANGED appVars

\* crypto.subtle.sign returns the 20 bytes of the signature
TotpSign ==
  /\ engine.pc = "called"
  /\ engine.subtle
  /\ \E hmac \in TotpDigests :
       engine' = [pc |-> "signed", secret |-> engine.secret,
                  timeStep |-> engine.timeStep,
                  msg |-> intToBuffer(engine.timeStep), hmac |-> hmac]
  /\ UNCHANGED appVars

TotpTruncate ==
  /\ engine.pc = "signed"
  /\ engine' = [pc |-> "done", path |-> "primary", secret |-> engine.secret,
                timeStep |-> engine.timeStep, hmac |-> engine.hmac,
                offset |-> TruncationOffset(engine.hmac),
                binary |-> TruncationBinary(engine.hmac, TruncationOffset(engine.hmac)),
                out |-> PrimaryTotp(engine.hmac)]
  /\ UNCHANGED appVars

TotpNext ==
  \/ TotpCall
  \/ TotpFallback
  \/ TotpSign
  \/ TotpTruncate

TotpSpec == TotpInit /\ [][TotpNext]_vars

\* ------------------------------------------------------------- properties
\* a secret as the data model wants it: 16 characters of [A-Z0-9]
ValidSecret(k) == Len(k) = KeyLen /\ \A i \in 1..Len(k) : InClass(k[i])

\* C1: every computation in flight that is not cancelled belongs to the live
\* run, a cancelled one leaves the published code alone whether it resolves or
\* rejects, and a published code that is not empty was published by the live
\* run for the secret of the current config.
C1_Cancellation ==
  /\ \A c \in BagToSet(pending) :
       /\ ~c.isCancelled => run = Some(c.secret)
       /\ c.isCancelled =>
            /\ OtpResolved(St, c, now).currentOtp = currentOtp
            /\ OtpRejected(St, c).currentOtp = currentOtp
  /\ currentOtp # OtpEmpty =>
       /\ screen = "otp"
       /\ run # Null
       /\ ReadableKey(St) = run
       /\ currentOtp.kind = "code" => currentOtp.secret = run[1]

\* a computation of a run that was left has resolved while a code of the new
\* run, for another secret, is published
C1_Witness ==
  /\ lastOp = "resolve"
  /\ lastInput.isCancelled
  /\ run # Null
  /\ lastInput.secret # run[1]
  /\ currentOtp.kind = "code"

\* C2: after every tick of the live run a computation for the time step of
\* the tick's clock reading has been started by that run.
C2_EveryWindowRecomputed ==
  lastOp = "tick" => TimeStep(now) \in startedSteps

\* C3: a tick publishes 30 - (nowSec mod 30), a value of 1..30 that is 30
\* exactly when nowSec mod 30 = 0, and a computation is started only when a
\* run is entered or by a tick that reads nowSec mod 30 = 0.
C3_WindowAlignment ==
  [][/\ lastOp' = "tick" =>
          /\ secondsLeft' = Period - (NowSec(now') % Period)
          /\ secondsLeft' \in 1..Period
          /\ secondsLeft' = Period <=> NowSec(now') % Period = 0
     /\ NewlyStarted(St, St') # {} =>
          \/ run = Null /\ run' # Null
          \/ lastOp' = "tick" /\ NowSec(now') % Period = 0]_vars

\* a tick at a window boundary has started the second computation of its run
C3_Witness ==
  /\ lastOp = "tick"
  /\ secondsLeft = Period
  /\ Cardinality(startedSteps) = 2

\* what a successful pairing with the key in the working buffer leaves
Pairs ==
  /\ screen' = "otp"
  /\ config' = Some([readableKey |-> keyInput, createdAt |-> now])
  /\ storage' = Some(JsonObject(config'[1]))

\* what a refused candidate leaves: the first violation, nothing else changed
Refused ==
  /\ status' = IF Len(keyInput) # KeyLen THEN LengthMsg ELSE CharsetMsg
  /\ UNCHANGED <<storage, config, screen, keyInput>>

\* candidates for the validator, with the first violation each must report
\* ("" for none)
ValidatorCases ==
  { <<Key1, "">>, <<Key2, "">>,
    <<SubSeq(Key1, 1, KeyLen - 1), LengthMsg>>,
    <<Key1 \o <<"9">>, LengthMsg>>,
    <<Key1Lower \o <<"z", "!">>, LengthMsg>>,
    <<<<"a", "b", "!">>, LengthMsg>>,
    <<<<>>, LengthMsg>>,
    <<Key1Lower, CharsetMsg>>,
    <<SubSeq(Key1, 1, KeyLen - 1) \o <<"-">>, CharsetMsg>>,
    <<SubSeq(Key1, 1, KeyLen - 1) \o <<" ">>, CharsetMsg>> }

FirstViolation(k) == IF keySchemaIssues(k) = <<>> THEN "" ELSE keySchemaIssues(k)[1]

\* the validator reports the expected first violation for every candidate
ValidatorCasesHold ==
  \A case \in ValidatorCases :
    /\ FirstViolation(case[1]) = case[2]
    /\ ValidSecret(case[1]) <=> case[2] = ""

\* C4 as claimed: handleSaveDevice pairs exactly when the candidate is valid.
C4_ValidationGatesPairing ==
  [][lastOp' = "save" =>
       /\ Pairs <=> ValidSecret(keyInput)
       /\ ~ValidSecret(keyInput) => Refused]_vars

\* C4, amended: handleSaveDevice pairs exactly when the candidate is valid and
\* the storage write does not throw; an invalid candidate is refused with its
\* first violation and nothing else changes; a valid candidate whose write
\* throws reports the failure and leaves screen and storage.
C4_PairsIffValidAndWritten ==
  [][lastOp' = "save" =>
       /\ Pairs <=> (ValidSecret(keyInput) /\ ~lastInput'.setItemThrows)
       /\ ~ValidSecret(keyInput) => Refused
       /\ (ValidSecret(keyInput) /\ lastInput'.setItemThrows) =>
            status' = SaveFailedMsg /\ UNCHANGED <<storage, screen>>
       /\ ValidatorCasesHold]_vars

\* a valid candidate was saved and the device is paired
C4_Witness ==
  /\ lastOp = "save"
  /\ ~lastInput.setItemThrows
  /\ screen = "otp"
  /\ status = PairedMsg
  /\ config # Null
  /\ ValidSecret(config[1].readableKey)

\* C5: load enters the OTP screen only for a blob whose secret is valid, and
\* ends on the setup screen with no device for every other storage content.
C5_LoadOnlyValidSecret ==
  lastOp = "load" =>
    LET usable == /\ storage # Null
                  /\ storage[1].json = "object"
                  /\ "readableKey" \in DOMAIN storage[1].fields
                  /\ ValidSecret(storage[1].fields.readableKey)
    IN /\ screen = "otp" <=> usable
       /\ ~usable => screen = "setup" /\ config = Null

\* C6: after a reset the blob is absent, config and code are empty, the
\* countdown is back at 30, the screen is setup and no run, timer or live
\* computation is left; from every state reset yields such a state, a load
\* over its storage finds no device, and a second reset changes nothing.
C6_ResetIdempotence ==
  LET AfterReset(s) == OtpEffect(s, handleResetDevice(s), now)
      IsReset(s) ==
        /\ s.storage = Null
        /\ s.config = Null
        /\ s.currentOtp = OtpEmpty
        /\ s.secondsLeft = Period
        /\ s.keyInput = <<>>
        /\ s.screen = "setup"
        /\ s.run = Null
        /\ s.timers = {}
        /\ Live(s) = {}
      once == AfterReset(St)
  IN /\ lastOp = "reset" => IsReset(St)
     /\ IsReset(once)
     /\ AfterReset(once) = once
     /\ LoadEffect(Mounted(once.storage)).config = Null
     /\ LoadEffect(Mounted(once.storage)).screen = "setup"

\* a paired device was reset while a computation of its run was in flight
C6_Witness ==
  /\ lastOp = "reset"
  /\ pending # EmptyBag
  /\ screen = "setup"

\* C7: at most one interval is active, one is active exactly on the OTP
\* screen with a secret in the config, and every active interval is the one
\* of the live run.
C7_SingleScheduler ==
  /\ Cardinality(timers) <= 1
  /\ timers # {} <=> (screen = "otp" /\ Truthy(ReadableKey(St)))
  /\ \A x \in timers : run = Some(x.secret) /\ ReadableKey(St) = run

\* a second run was entered after an earlier one was left with a computation
\* in flight
C7_Witness ==
  /\ lastOp = "save"
  /\ timers # {}
  /\ \E c \in BagToSet(pending) : c.isCancelled

\* u is the uppercase form of character c
Folds(c, u) ==
  \/ c = u /\ c \notin Range(LowerLetters)
  \/ \E j \in 1..Len(LowerLetters) : LowerLetters[j] = c /\ UpperLetters[j] = u

LettersAndDigits == Range(UpperLetters) \cup Range(LowerLetters) \cup Digits

\* the positions of val, in order, whose character is a letter or a digit
Kept(val) ==
  LET IsKept(i) == val[i] \in LettersAndDigits
  IN SelectSeq([i \in 1..Len(val) |-> i], IsKept)

\* r is the first n characters (all of them when there are fewer) of val
\* uppercased with every character outside [A-Z0-9] removed
SanitizedPrefix(val, r, n) ==
  LET kept == Kept(val)
  IN /\ Len(r) = IF Len(kept) < n THEN Len(kept) ELSE n
     /\ \A k \in 1..Len(r) : Folds(val[kept[k]], r[k])

\* C8 as claimed: the key input handler sets the working buffer to the
\* sanitized input truncated to its first 16 characters.
C8_SanitizeTruncates ==
  [][lastOp' = "input" => SanitizedPrefix(lastInput'.val, keyInput', KeyLen)]_vars

\* C8, amended: when the sanitized input has at most 16 characters the handler
\* sets the working buffer to it and clears the status; when it has more the
\* handler changes neither.
C8_SanitizeOrBlock ==
  [][lastOp' = "input" =>
       IF Len(Kept(lastInput'.val)) <= KeyLen
         THEN SanitizedPrefix(lastInput'.val, keyInput', KeyLen) /\ status' = ""
         ELSE UNCHANGED <<keyInput, status>>]_vars

\* an input that sanitizes to 17 characters was entered and the buffer kept
\* the 15 characters it held
C8_Witness ==
  /\ lastOp = "input"
  /\ Len(Kept(lastInput.val)) > KeyLen
  /\ Len(keyInput) = KeyLen - 1

\* C9: while a pairing stands (no reset since), the stored blob is the saved
\* config, and every load ends on the OTP screen with that config and a run
\* for its secret.
C9_PairingSurvivesRestart ==
  paired # Null =>
    /\ storage = Some(JsonStringify(paired[1]))
    /\ lastOp = "load" =>
         /\ screen = "otp"
         /\ config = paired
         /\ run = Some(paired[1].readableKey)

\* the page was reloaded after a pairing and the load has run
C9_Witness ==
  /\ lastOp = "load"
  /\ paired # Null
  /\ screen = "otp"

\* C10: the published countdown is an integer of 0..30.
C10_CountdownRange == secondsLeft \in 0..Period

\* a tick in the second second of a window has published 29
C10_Witness ==
  /\ lastOp = "tick"
  /\ secondsLeft = Period - 1

\* C11: generateTotpForStep returns exactly 6 decimal digits on both paths;
\* on the primary path the 4-byte window offset..offset+3 lies inside the 20
\* bytes of the signature and the truncated value is in 0..2^31-1.
C11_Format ==
  engine.pc = "done" =>
    /\ Len(engine.out) = OtpDigits
    /\ \A i \in 1..Len(engine.out) : engine.out[i] \in Digits
    /\ engine.path = "primary" =>
         /\ Len(engine.hmac) = DigestLen
         /\ engine.offset >= 0
         /\ engine.offset + 3 <= DigestLen - 1
         /\ engine.binary >= 0
         /\ engine.binary <= 2147483647

\* a signature of bytes 255 whose window starts at offset 15 was truncated to
\* the largest value, 2^31 - 1, and to the code 483647
C11_Witness ==
  /\ engine.pc = "done"
  /\ engine.path = "primary"
  /\ engine.offset = 15
  /\ engine.hmac[16] = 255
  /\ engine.binary = 2147483647
  /\ engine.out = <<"4", "8", "3", "6", "4", "7">>

\* C12: leaving the run clears the pending "just refreshed" signal: after a
\* reset the highlight flag is not set and no highlight-clearing timeout of
\* the ended run is left to fire into a later run.
C12_HighlightCleared ==
  lastOp = "reset" => ~otpHighlight /\ hlTimeouts = {}

\* C13: within the live run no two computations for the same secret and time
\* step are in flight together.
C13_NoReentrantComputation ==
  \A c \in BagToSet(pending) : ~c.isCancelled => CopiesIn(c, pending) <= 1

\* C14: within one run a resolution never replaces the published code by the
\* code of an earlier time step: of two computations in flight for the steps
\* N and N+1, whichever resolves last, the code of N+1 stays published.
C14_NoStaleOverwrite ==
  [][(/\ lastOp' = "resolve"
      /\ run # Null
      /\ run' = run
      /\ currentOtp.kind = "code"
      /\ currentOtp'.kind = "code")
       => currentOtp'.timeStep >= currentOtp.timeStep]_vars

\* C15: a tick, a resolution, a failure, the highlight timeout and a key
\* input edit leave the stored blob and the in-memory config as they are, and
\* the stored blob changes only when a pairing succeeds (the blob of the new
\* config is written) or on reset (the blob is deleted).
C15_Frame ==
  [][/\ lastOp' \in {"tick", "resolve", "reject", "highlight-off", "input"}
          => storage' = storage /\ config' = config
     /\ storage' # storage
          => \/ /\ lastOp' = "save"
                /\ screen' = "otp"
                /\ config' # Null
                /\ storage' = Some(JsonStringify(config'[1]))
             \/ lastOp' = "reset" /\ storage' = Null]_vars

\* a computation of the live run failed while the device paired by a save
\* was stored
C15_Witness ==
  /\ lastOp = "reject"
  /\ ~lastInput.isCancelled
  /\ paired # Null
  /\ storage = Some(JsonStringify(paired[1]))
  /\ config = paired

\* C16: when a computation of the live run fails, the placeholder is
\* published, the interval, the config and the stored blob stay as they are,
\* and a tick that finds the placeholder published has a computation started
\* for its time step (one is started again at the next window boundary); when
\* the computation was cancelled, its failure only ends it.
C16_FailureHandling ==
  [][/\ lastOp' = "reject" /\ ~lastInput'.isCancelled
          => /\ currentOtp' = OtpPlaceholder
             /\ run # Null
             /\ timers # {}
             /\ <<timers, run, config, storage, screen>>' =
                  <<timers, run, config, storage, screen>>
     /\ lastOp' = "reject" /\ lastInput'.isCancelled
          => /\ St' = [St EXCEPT !.pending = @ (-) SetToBag({lastInput'})]
     /\ lastOp' = "tick" /\ currentOtp' = OtpPlaceholder
          => TimeStep(now') \in startedSteps']_vars

\* C17: the step that enters a run starts a computation for the time step
\* floor(now/30) of that instant, and, computations resolving and no reset
\* occurring, a code for the run's secret is eventually published.
C17_CodeEventuallyPublished ==
  /\ [](lastOp \in {"load", "save"} /\ run # Null
          => \E c \in BagToSet(pending) :
               /\ ~c.isCancelled
               /\ c.secret = run[1]
               /\ c.timeStep = TimeStep(now))
  /\ (run # Null) ~>
       (run # Null /\ currentOtp.kind = "code" /\ currentOtp.secret = run[1])

\* the first computation of a run entered by a save resolved and its code is
\* published
C17_Witness ==
  /\ lastOp = "resolve"
  /\ paired # Null
  /\ run = Some(paired[1].readableKey)
  /\ currentOtp.kind = "code"
  /\ currentOtp.secret = run[1]

\* C18: the screen is "otp" only with a config holding a non-empty secret, so
\* the render never falls through to "Something went wrong".
C18_OtpScreenHasConfig ==
  /\ screen = "otp" => config # Null /\ Truthy(ReadableKey(St))
  /\ screen \in {"loading", "setup", "otp"}

\* a valid key was saved while the storage write threw: the config is set and
\* the setup screen is still shown
C18_Witness ==
  /\ lastOp = "save"
  /\ lastInput.setItemThrows
  /\ config # Null
  /\ screen = "setup"

\* C19: once loaded, the in-memory config and the stored blob agree: the
\* secret a load would read from the blob (none from an absent or unusable
\* blob) is the secret of the config; a pairing attempt whose storage write
\* throws leaves the device unpaired in both.
C19_ConfigMatchesStorage ==
  screen # "loading" =>
    /\ ReadableKey(St) = ReadableKey(LoadEffect(Mounted(storage)))
    /\ lastOp = "save" /\ lastInput.setItemThrows => config = Null

====
